---- MODULE Spec2Model ----
(***************************************************************************)
(* A model of the bloom-filter programs bloom.py (build) and query.py      *)
(* (query): the FASTA indexer, the sequence sanitizer and run indexer, the *)
(* hash position generator, the bit array, and the two pipelines.          *)
(*                                                                         *)
(* File offsets are 0-based as in the Python source; a byte string is a    *)
(* TLA+ sequence, so offset o is element o + 1.                            *)
(***************************************************************************)
EXTENDS Integers, Sequences, FiniteSets, TLC

VARIABLES
    \* ---- indexfasta ----
    content,      \* the bytes of the file being indexed
    chunksize,    \* bytes read per infile.read
    filepos,      \* offset of the next chunk
    headstart,    \* offsets of the '>' found so far
    headend,      \* offsets of the header-terminating newlines found so far
    fastaindex,   \* the returned list of (headstart, headend, seqstart, seqend)
    ipc,          \* "idle", "scan", "done", "IndexError"
    \* ---- translate and indexsequence ----
    raw,          \* the bytes read for one record's sequence
    seq,          \* the translated buffer
    pointer,      \* indexsequence's pointer
    seqindex,     \* the (start, end) runs found so far
    spc,          \* "idle", "read", "index", "done"
    \* ---- the bloom filter ----
    k,            \* number of hash slices
    bitfieldsize, \* bits of the hash-number used per slice
    m,            \* size of the filter in bits
    digest,       \* the hash primitive: k-mer -> digest, as an integer
    bloomfilter,  \* the byte array
    hashnumber,   \* what is left of the current k-mer's hash-number
    round,        \* the slice loop's counter
    mer,          \* the current k-mer
    there,        \* the query's flag for the current k-mer
    inserted,     \* the k-mers whose k bits have all been set
    setbits,      \* every (byteposition, bitposition) handed to setbit
    bpc,          \* "idle", "build", "insert", "query", "test", "IndexError"
    \* ---- humansample ----
    kmer,         \* the k-mer length
    recno,        \* how many entries of fastaindex have been processed
    todo,         \* the window offsets of the current record not yet looked up
    total_kmers,
    human_kmers,
    outfile,      \* the lines written so far
    qpc           \* "idle", "next", "kmers", "done", "ZeroDivisionError"

ivars == <<content, chunksize, filepos, headstart, headend, fastaindex, ipc>>
svars == <<raw, seq, pointer, seqindex, spc>>
pvars == <<k, bitfieldsize, m, digest>>
bvars == <<bloomfilter, hashnumber, round, mer, there, inserted, setbits, bpc>>

qvars == <<kmer, recno, todo, total_kmers, human_kmers, outfile, qpc>>

vars == <<ivars, svars, pvars, bvars, qvars>>

----------------------------------------------------------------------------
(* Bounds of the model *)

\* longest file handed to indexfasta
MaxFile == 6
\* largest chunk size tried by the chunked scan
MaxChunk == 3
\* longest raw sequence handed to the sanitizer
MaxSeq == 4
\* most hash slices per k-mer
MaxK == 2
\* widest bit field per slice
MaxBits == 3
\* largest filter size in bits, where it is chosen freely
MaxM == 9
\* width in bits of the digest the hash primitive returns
DigestBits == 4
\* longest sample file handed to the query
MaxSample == 5
\* longest k-mer length the query is run with
MaxKmer == 2

----------------------------------------------------------------------------
(* Bytes and byte strings *)

GT == ">"
NL == "\n"

Max(a, b) == IF a >= b THEN a ELSE b
Min(a, b) == IF a <= b THEN a ELSE b

\* all byte strings over alphabet S of length 0..n
SeqsUpTo(S, n) == UNION {[1..l -> S] : l \in 0..n}

\* bytes.find(sub, start) for a one-byte sub: the lowest offset >= start that
\* holds sub, or -1.  A negative start counts from the end (slice semantics).
Find(s, sub, start) ==
    LET from == IF start < 0 THEN Max(0, start + Len(s)) ELSE start
        hits == {o \in from..(Len(s) - 1) : s[o + 1] = sub}
    IN  IF hits = {} THEN -1
        ELSE CHOOSE o \in hits : \A q \in hits : o <= q

\* del lst[i] (0-based i)
DelAt(lst, i) == SubSeq(lst, 1, i) \o SubSeq(lst, i + 2, Len(lst))

----------------------------------------------------------------------------
(* indexfasta: the chunked scan *)

\* "find headers": every '>' of the chunk, as a file offset, appended in order
RECURSIVE FindHeaders(_, _, _, _)
FindHeaders(chunk, chunkpos, fpos, hs) ==
    LET p == Find(chunk, GT, chunkpos)
    IN  IF p = -1 THEN hs
        ELSE FindHeaders(chunk, p + 1, fpos, Append(hs, p + fpos))

\* where in the chunk the search for a header's newline starts
StartInChunk_NoClamp(hstart, fpos) == hstart - fpos

StartInChunk(hstart, fpos) == Max(0, hstart - fpos)

\* "find corresponding headend": for i in range(len(headend), len(headstart))
RECURSIVE FindHeadEnds(_, _, _, _, _, _)
FindHeadEnds(chunk, fpos, hs, he, i, n) ==
    IF i >= n THEN he
    ELSE LET p == Find(chunk, NL, StartInChunk(hs[i + 1], fpos))
         IN  FindHeadEnds(chunk, fpos, hs,
                          IF p # -1 THEN Append(he, p + fpos) ELSE he,
                          i + 1, n)

\* one iteration of the read loop on a non-empty chunk
ScanChunk(chunk, fpos, hs, he) ==
    LET hs2 == FindHeaders(chunk, 0, fpos, hs)
    IN  [headstart |-> hs2,
         headend   |-> FindHeadEnds(chunk, fpos, hs2, he, Len(he), Len(hs2))]

\* del headstart[i]; del headend[i]
DropSpurious_Earlier(hs, he, i) ==
    [headstart |-> DelAt(hs, i - 1), headend |-> DelAt(he, i - 1)]

DropSpurious(hs, he, i) ==
    [headstart |-> DelAt(hs, i), headend |-> DelAt(he, i)]

\* "Eliminating wrong headers": for i in range(len(headstart)-1, 0, -1).
\* headend[i] with i >= len(headend) raises IndexError.
RECURSIVE Eliminate(_, _, _)
Eliminate(hs, he, i) ==
    IF i < 1 THEN [error |-> FALSE, headstart |-> hs, headend |-> he]
    ELSE IF i >= Len(he) THEN [error |-> TRUE, headstart |-> hs, headend |-> he]
    ELSE IF he[i + 1] = he[i]
         THEN LET d == DropSpurious(hs, he, i)
              IN  Eliminate(d.headstart, d.headend, i - 1)
         ELSE Eliminate(hs, he, i - 1)

BuildIndex_NoGap(hs, he, fpos) ==
    LET hs2 == Append(hs, fpos)
    IN  [i \in 1..Len(he) |-> <<hs2[i], he[i], he[i] + 1, hs2[i + 1]>>]

\* headstart.append(filepos) and the fastaindex tuples
BuildIndex(hs, he, fpos) ==
    LET hs2 == Append(hs, fpos)
    IN  [i \in 1..Len(he) |-> <<hs2[i], he[i], he[i] + 1, hs2[i + 1] - 1>>]

\* everything after the read loop
FinishIndex(hs, he, fpos) ==
    LET e == Eliminate(hs, he, Len(hs) - 1)
    IN  IF e.error THEN [error |-> TRUE, fastaindex |-> <<>>]
        ELSE [error |-> FALSE,
              fastaindex |-> BuildIndex(e.headstart, e.headend, fpos)]

\* the read loop, from offset fpos to the end of the file
RECURSIVE ScanFrom(_, _, _, _, _)
ScanFrom(file, csize, fpos, hs, he) ==
    IF fpos >= Len(file) THEN [headstart |-> hs, headend |-> he]
    ELSE LET chunk == SubSeq(file, fpos + 1, Min(fpos + csize, Len(file)))
             s == ScanChunk(chunk, fpos, hs, he)
         IN  ScanFrom(file, csize, fpos + Len(chunk), s.headstart, s.headend)

\* indexfasta as a function of the file and the chunk size
indexfasta(file, csize) ==
    LET s == ScanFrom(file, csize, 0, <<>>, <<>>)
    IN  FinishIndex(s.headstart, s.headend, Len(file))

FileBytes == {GT, NL, "A"}

IndexIdle ==
    /\ content = <<>>
    /\ chunksize = 1
    /\ filepos = 0
    /\ headstart = <<>>
    /\ headend = <<>>
    /\ fastaindex = <<>>
    /\ ipc = "idle"

SeqIdle ==
    /\ raw = <<>>
    /\ seq = <<>>
    /\ pointer = 0
    /\ seqindex = <<>>
    /\ spc = "idle"

BloomIdle ==
    /\ k = 1
    /\ bitfieldsize = 1
    /\ m = 1
    /\ digest = <<>>
    /\ bloomfilter = <<>>
    /\ hashnumber = 0
    /\ round = 0
    /\ mer = <<>>
    /\ there = TRUE
    /\ inserted = {}
    /\ setbits = {}
    /\ bpc = "idle"

QueryIdle ==
    /\ kmer = 1
    /\ recno = 0
    /\ todo = <<>>
    /\ total_kmers = 0
    /\ human_kmers = 0
    /\ outfile = <<>>
    /\ qpc = "idle"

IndexInit ==
    /\ SeqIdle
    /\ BloomIdle
    /\ QueryIdle
    /\ content \in SeqsUpTo(FileBytes, MaxFile)
    /\ chunksize \in 1..MaxChunk
    /\ filepos = 0
    /\ headstart = <<>>
    /\ headend = <<>>
    /\ fastaindex = <<>>
    /\ ipc = "scan"

\* content = infile.read(chunksize) with len(content) > 0
ReadChunk ==
    /\ ipc = "scan"
    /\ filepos < Len(content)
    /\ LET chunk == SubSeq(content, filepos + 1,
                           Min(filepos + chunksize, Len(content)))
           s == ScanChunk(chunk, filepos, headstart, headend)
       IN  /\ headstart' = s.headstart
           /\ headend' = s.headend
           /\ filepos' = filepos + Len(chunk)
    /\ UNCHANGED <<content, chunksize, fastaindex, ipc, svars, pvars, bvars, qvars>>

\* len(content) == 0: break, then the elimination and the index
EndOfFile ==
    /\ ipc = "scan"
    /\ filepos = Len(content)
    /\ LET r == FinishIndex(headstart, headend, filepos)
       IN  /\ ipc' = IF r.error THEN "IndexError" ELSE "done"
           /\ fastaindex' = r.fastaindex
    /\ UNCHANGED <<content, chunksize, filepos, headstart, headend, svars, pvars, bvars, qvars>>

IndexNext == ReadChunk \/ EndOfFile

SpecIndex == IndexInit /\ [][IndexNext]_vars

----------------------------------------------------------------------------
(* Properties of indexfasta *)

Finished == ipc \in {"done", "IndexError"}

Offsets(file) == 0..(Len(file) - 1)
Markers(file) == {o \in Offsets(file) : file[o + 1] = GT}

\* the newline that terminates the header line a marker sits in, or -1
Resolve(file, o) == Find(file, NL, o)

\* a marker lies inside a header line when an earlier marker has no newline
\* between the two
InsideHeader(file, o) ==
    \E q \in Markers(file) : q < o /\ Resolve(file, q) = Resolve(file, o)

\* the markers that begin a record
RecordStarts(file) == {o \in Markers(file) : ~InsideHeader(file, o)}

Unterminated(file) == {o \in Markers(file) : Resolve(file, o) = -1}

\* a file made of N >= 1 records: '>' header '\n' sequence, repeated
WellFormed(file) ==
    /\ Len(file) > 0
    /\ file[1] = GT
    /\ Unterminated(file) = {}

HeaderStarts == {fastaindex[i][1] : i \in 1..Len(fastaindex)}

\* C3: a file made of N header-delimited records is indexed as exactly N
\* entries, in file order, with seqStart = headerEnd + 1, each headerStart one
\* past the previous seqEnd, the first headerStart at offset 0 and the last
\* seqEnd at file length - 1.
C3_IndexingCoverage ==
    (Finished /\ WellFormed(content)) =>
        /\ ipc = "done"
        /\ Len(fastaindex) = Cardinality(RecordStarts(content))
        /\ fastaindex[1][1] = 0
        /\ fastaindex[Len(fastaindex)][4] = Len(content) - 1
        /\ \A i \in 1..Len(fastaindex) :
              /\ fastaindex[i][1] < fastaindex[i][2]
              /\ fastaindex[i][3] = fastaindex[i][2] + 1
              /\ fastaindex[i][4] >= fastaindex[i][3] - 1
        /\ \A i \in 1..(Len(fastaindex) - 1) :
              fastaindex[i + 1][1] = fastaindex[i][4] + 1

C3_Witness ==
    /\ ipc = "done"
    /\ WellFormed(content)
    /\ Len(fastaindex) = 2
    /\ Cardinality(Markers(content)) = 3
    /\ chunksize < Len(content)

\* the pairs of markers that resolve to the same header-terminating newline
SameNewline(file) ==
    {pr \in Markers(file) \X Markers(file) :
        /\ pr[1] < pr[2]
        /\ Resolve(file, pr[1]) # -1
        /\ Resolve(file, pr[1]) = Resolve(file, pr[2])}

\* C5 as stated: of two markers resolving to the same newline the earlier is
\* dropped and the later one is the surviving record's headerStart.
C5_EarlierDropped ==
    ipc = "done" =>
        \A pr \in SameNewline(content) :
            /\ pr[1] \notin HeaderStarts
            /\ \E i \in 1..Len(fastaindex) :
                  /\ fastaindex[i][2] = Resolve(content, pr[1])
                  /\ fastaindex[i][1] > pr[1]

\* C5 amended: of two markers resolving to the same newline the later is
\* dropped; the surviving record's headerStart is the earliest marker of that
\* header line.
C5_LaterDropped ==
    ipc = "done" =>
        \A pr \in SameNewline(content) :
            /\ pr[2] \notin HeaderStarts
            /\ \E i \in 1..Len(fastaindex) :
                  /\ fastaindex[i][2] = Resolve(content, pr[1])
                  /\ fastaindex[i][1] <= pr[1]
                  /\ fastaindex[i][1] \in RecordStarts(content)

C5_Witness ==
    /\ ipc = "done"
    /\ SameNewline(content) # {}
    /\ Len(fastaindex) = 2
    /\ chunksize < Len(content)

\* C6: an empty file, or a file with a header that has no terminating newline
\* before end of file, is indexed without error; the unterminated header adds
\* no record, and an empty file or a lone unterminated header gives no records.
C6_MalformedNotAnError ==
    (Finished /\ (content = <<>> \/ Unterminated(content) # {})) =>
        /\ ipc = "done"
        /\ Len(fastaindex) =
              Cardinality(RecordStarts(content) \ Unterminated(content))
        /\ (RecordStarts(content) \subseteq Unterminated(content)
              => fastaindex = <<>>)

\* the result of scanning the whole file as one chunk
WholeFile(file) == indexfasta(file, Max(1, Len(file)))

\* C9: the chunk-by-chunk scan returns what the single-chunk scan returns,
\* for every file and every chunk size.
C9_ChunkIndependence ==
    Finished =>
        [error |-> ipc = "IndexError", fastaindex |-> fastaindex]
            = WholeFile(content)

\* a header line whose marker and newline fall in different chunks
C9_Witness ==
    /\ ipc = "done"
    /\ Len(fastaindex) >= 1
    /\ \E i \in 1..Len(fastaindex) :
          fastaindex[i][1] \div chunksize # fastaindex[i][2] \div chunksize
    /\ \E o \in Markers(content) : o \notin HeaderStarts

----------------------------------------------------------------------------
(* The sanitizer: bytes.translate(toN, b'\r\n\t ') and indexsequence *)

\* the bytes the translation deletes
Deleted == {"\r", "\n", "\t", " "}

\* toN = bytes.maketrans(b'MRYKVHDBacgtmrykvhdbxnsw', b'NNNNNNNNACGTNNNNNNNNNNNN'):
\* a byte the table does not list is left as it is
toN(b) ==
    CASE b = "a" -> "A"
      [] b = "c" -> "C"
      [] b = "g" -> "G"
      [] b = "t" -> "T"
      [] b \in {"M", "R", "Y", "K", "V", "H", "D", "B",
                "m", "r", "y", "k", "v", "h", "d", "b",
                "x", "n", "s", "w"} -> "N"
      [] OTHER -> b

\* seq.translate(toN, b'\r\n\t '): delete, then map through the table
RECURSIVE translate(_)
translate(bytes) ==
    IF bytes = <<>> THEN <<>>
    ELSE IF Head(bytes) \in Deleted THEN translate(Tail(bytes))
    ELSE <<toN(Head(bytes))>> \o translate(Tail(bytes))

\* "Find start of seq": the first A/T/G/C at or after the pointer, or -1
findstart(s, ptr) ==
    LET potenstart == {Find(s, "A", ptr), Find(s, "T", ptr),
                       Find(s, "G", ptr), Find(s, "C", ptr)} \ {-1}
    IN  IF potenstart = {} THEN -1
        ELSE CHOOSE o \in potenstart : \A q \in potenstart : o <= q

\* "Find end of seq": the first N at or after realstart, or len(seq)
findend(s, realstart) ==
    LET realend == Find(s, "N", realstart)
    IN  IF realend = -1 THEN Len(s) ELSE realend

\* indexsequence as a function of the buffer
RECURSIVE indexsequence_from(_, _, _)
indexsequence_from(s, ptr, idx) ==
    IF Len(s) <= ptr THEN idx
    ELSE LET realstart == findstart(s, ptr)
         IN  IF realstart = -1 THEN idx
             ELSE indexsequence_from(s, findend(s, realstart),
                                     Append(idx, <<realstart, findend(s, realstart)>>))

indexsequence(s) == indexsequence_from(s, 0, <<>>)

RawBytes == {"A", "C", "t", "N", "n", "S", "\n"}

SeqInit ==
    /\ IndexIdle
    /\ BloomIdle
    /\ QueryIdle
    /\ raw \in SeqsUpTo(RawBytes, MaxSeq)
    /\ seq = <<>>
    /\ pointer = 0
    /\ seqindex = <<>>
    /\ spc = "read"

\* seq = infile.read(...).translate(toN, b'\r\n\t ')
Translate ==
    /\ spc = "read"
    /\ seq' = translate(raw)
    /\ spc' = "index"
    /\ UNCHANGED <<raw, pointer, seqindex, ivars, pvars, bvars, qvars>>

\* one iteration of indexsequence's loop that appends a run
NextRun ==
    /\ spc = "index"
    /\ Len(seq) > pointer
    /\ findstart(seq, pointer) # -1
    /\ LET realstart == findstart(seq, pointer)
           realend == findend(seq, realstart)
       IN  /\ seqindex' = Append(seqindex, <<realstart, realend>>)
           /\ pointer' = realend
    /\ UNCHANGED <<raw, seq, spc, ivars, pvars, bvars, qvars>>

\* the loop ends: the pointer is at the end, or no base is left (break)
RunsDone ==
    /\ spc = "index"
    /\ (Len(seq) <= pointer \/ findstart(seq, pointer) = -1)
    /\ spc' = "done"
    /\ UNCHANGED <<raw, seq, pointer, seqindex, ivars, pvars, bvars, qvars>>

SeqNext == Translate \/ NextRun \/ RunsDone

SpecSeq == SeqInit /\ [][SeqNext]_vars

Canonical == {"A", "C", "G", "T"}

InSomeRun(o) == \E j \in 1..Len(seqindex) : seqindex[j][1] <= o /\ o < seqindex[j][2]

\* C4: after translation every byte of the buffer is A, C, G, T or N, and
\* every run is non-empty, holds only A/C/G/T, and is preceded by the start of
\* the buffer or by a byte that belongs to no run.
C4_SanitizerRunInvariant ==
    spc \in {"index", "done"} =>
        /\ \A o \in Offsets(seq) : seq[o + 1] \in Canonical \cup {"N"}
        /\ \A j \in 1..Len(seqindex) :
              /\ seqindex[j][1] < seqindex[j][2]
              /\ \A o \in seqindex[j][1]..(seqindex[j][2] - 1) :
                    seq[o + 1] \in Canonical
              /\ (seqindex[j][1] = 0 \/ ~InSomeRun(seqindex[j][1] - 1))

\* on a buffer that does hold only A/C/G/T/N, the runs are those of
\* indexsequence and hold only A/C/G/T
RunsOfCleanBuffer ==
    (spc = "done" /\ \A o \in Offsets(seq) : seq[o + 1] \in Canonical \cup {"N"}) =>
        /\ seqindex = indexsequence(seq)
        /\ \A j \in 1..Len(seqindex) :
              /\ seqindex[j][1] < seqindex[j][2]
              /\ \A o \in seqindex[j][1]..(seqindex[j][2] - 1) :
                    seq[o + 1] \in Canonical
              /\ (seqindex[j][1] = 0 \/ ~InSomeRun(seqindex[j][1] - 1))

----------------------------------------------------------------------------
(* The bit array and the hash position generator *)

\* x | y and x & y on non-negative integers
RECURSIVE BitOr(_, _)
BitOr(x, y) ==
    IF x = 0 THEN y
    ELSE IF y = 0 THEN x
    ELSE Max(x % 2, y % 2) + 2 * BitOr(x \div 2, y \div 2)

RECURSIVE BitAnd(_, _)
BitAnd(x, y) ==
    IF x = 0 \/ y = 0 THEN 0
    ELSE Min(x % 2, y % 2) + 2 * BitAnd(x \div 2, y \div 2)

\* round(m/8): Python rounds a tie to the even neighbour
NumBytes(bits) ==
    LET q == bits \div 8
        r == bits % 8
    IN  IF r < 4 THEN q
        ELSE IF r > 4 THEN q + 1
        ELSE IF q % 2 = 0 THEN q ELSE q + 1

\* bytearray(round(m/8))
NewFilter(bits) == [b \in 1..NumBytes(bits) |-> 0]

\* the values int.from_bytes(digest) can take
HashValues == 0..(2 ^ DigestBits - 1)

\* hashit: the digest of the k-mer as one integer (bloom.py)
hashit(x) == digest[x]

\* hashit of query.py
query_hashit(x) == digest[x]

\* nextposition of bloom.py
nextposition(hnumber) ==
    LET position == hnumber % (2 ^ bitfieldsize)
    IN  [hashnumber   |-> hnumber \div (2 ^ bitfieldsize),
         byteposition |-> position \div 8,
         bitposition  |-> position % 8]

\* nextposition of query.py
query_nextposition(hnumber) ==
    LET position == hnumber % (2 ^ bitfieldsize)
    IN  [hashnumber   |-> hnumber \div (2 ^ bitfieldsize),
         byteposition |-> position \div 8,
         bitposition  |-> position % 8]

setbit_Assign(bf, byteposition, bitposition) ==
    [bf EXCEPT ![byteposition + 1] = 2 ^ bitposition]

\* bloomfilter[byteposition] |= 1 << bitposition
setbit(bf, byteposition, bitposition) ==
    [bf EXCEPT ![byteposition + 1] = BitOr(@, 2 ^ bitposition)]

isbitset_NoShift(bf, byteposition, bitposition) ==
    BitAnd(bf[byteposition + 1], bitposition) # 0

\* (bloomfilter[byteposition] & (1 << bitposition)) != 0
isbitset(bf, byteposition, bitposition) ==
    BitAnd(bf[byteposition + 1], 2 ^ bitposition) # 0

\* an index a bytearray of this length accepts (no negative one is produced)
InRange(bf, byteposition) == byteposition < Len(bf)

\* the query's slice loop for one k-mer: TRUE when all k bits are set
RECURSIVE testslices(_, _, _, _)
testslices(bf, hnumber, i, flag) ==
    IF i >= k THEN flag
    ELSE LET p == query_nextposition(hnumber)
         IN  testslices(bf, p.hashnumber, i + 1,
                        IF isbitset(bf, p.byteposition, p.bitposition)
                        THEN flag ELSE FALSE)

mightcontain(bf, x) == testslices(bf, query_hashit(x), 0, TRUE)

\* the build's slice loop for one k-mer
RECURSIVE setslices(_, _, _)
setslices(bf, hnumber, i) ==
    IF i >= k THEN bf
    ELSE LET p == nextposition(hnumber)
         IN  setslices(setbit(bf, p.byteposition, p.bitposition),
                       p.hashnumber, i + 1)

BuildKmers == {<<"A", "C">>, <<"C", "A">>}

\* filter sizes that are a power of two, as the configured 2^35 is, and give
\* every bit field value a bit of its own
PowerSizes(bits) == {2 ^ e : e \in bits..MaxBits}

\* the build and the query of two k-mers
BloomInit ==
    /\ IndexIdle
    /\ SeqIdle
    /\ QueryIdle
    /\ k \in 1..MaxK
    /\ bitfieldsize \in 1..MaxBits
    /\ m \in PowerSizes(bitfieldsize)
    /\ digest \in [BuildKmers -> HashValues]
    /\ bloomfilter = NewFilter(m)
    /\ hashnumber = 0
    /\ round = 0
    /\ mer = <<>>
    /\ there = TRUE
    /\ inserted = {}
    /\ setbits = {}
    /\ bpc = "build"

\* one k-mer, any filter size
AddrInit ==
    /\ IndexIdle
    /\ SeqIdle
    /\ QueryIdle
    /\ k \in 1..MaxK
    /\ bitfieldsize \in 1..MaxBits
    /\ m \in 1..MaxM
    /\ digest \in [{<<"A", "C">>} -> HashValues]
    /\ bloomfilter = NewFilter(m)
    /\ hashnumber = 0
    /\ round = 0
    /\ mer = <<>>
    /\ there = TRUE
    /\ inserted = {}
    /\ setbits = {}
    /\ bpc = "build"

\* mer = seq[i:i+kmer]; hashnumber = hashit(mer)
HashKmer ==
    /\ bpc = "build"
    /\ \E x \in DOMAIN digest :
          /\ mer' = x
          /\ hashnumber' = hashit(x)
    /\ round' = 0
    /\ bpc' = "insert"
    /\ UNCHANGED <<bloomfilter, there, inserted, setbits, ivars, svars, pvars, qvars>>

\* one pass of the build's slice loop: nextposition, then setbit
InsertSlice ==
    /\ bpc = "insert"
    /\ round < k
    /\ LET p == nextposition(hashnumber)
       IN  /\ hashnumber' = p.hashnumber
           /\ IF InRange(bloomfilter, p.byteposition)
              THEN /\ bloomfilter' = setbit(bloomfilter, p.byteposition, p.bitposition)
                   /\ setbits' = setbits \cup {<<p.byteposition, p.bitposition>>}
                   /\ round' = round + 1
                   /\ bpc' = bpc
              ELSE /\ bpc' = "IndexError"
                   /\ UNCHANGED <<bloomfilter, setbits, round>>
    /\ UNCHANGED <<mer, there, inserted, ivars, svars, pvars, qvars>>

\* the slice loop is over: the k-mer is in the filter
InsertDone ==
    /\ bpc = "insert"
    /\ round = k
    /\ inserted' = inserted \cup {mer}
    /\ bpc' = "build"
    /\ UNCHANGED <<bloomfilter, hashnumber, round, mer, there, setbits,
                   ivars, svars, pvars, qvars>>

\* output.write(bloomfilter), and query.py reading it back
SaveAndLoad ==
    /\ bpc = "build"
    /\ bpc' = "query"
    /\ UNCHANGED <<bloomfilter, hashnumber, round, mer, there, inserted, setbits,
                   ivars, svars, pvars, qvars>>

\* mer = seq[i:i+kmer]; hashnumber = hashit(mer); there = True
QueryKmer ==
    /\ bpc = "query"
    /\ \E x \in DOMAIN digest :
          /\ mer' = x
          /\ hashnumber' = query_hashit(x)
    /\ round' = 0
    /\ there' = TRUE
    /\ bpc' = "test"
    /\ UNCHANGED <<bloomfilter, inserted, setbits, ivars, svars, pvars, qvars>>

\* one pass of the query's slice loop: nextposition, then isbitset
TestSlice ==
    /\ bpc = "test"
    /\ round < k
    /\ LET p == query_nextposition(hashnumber)
       IN  /\ hashnumber' = p.hashnumber
           /\ IF InRange(bloomfilter, p.byteposition)
              THEN /\ there' = IF isbitset(bloomfilter, p.byteposition, p.bitposition)
                               THEN there ELSE FALSE
                   /\ round' = round + 1
                   /\ bpc' = bpc
              ELSE /\ bpc' = "IndexError"
                   /\ UNCHANGED <<there, round>>
    /\ UNCHANGED <<bloomfilter, mer, inserted, setbits, ivars, svars, pvars, qvars>>

\* the slice loop is over: on to the next k-mer
TestDone ==
    /\ bpc = "test"
    /\ round = k
    /\ bpc' = "query"
    /\ UNCHANGED <<bloomfilter, hashnumber, round, mer, there, inserted, setbits,
                   ivars, svars, pvars, qvars>>

BloomNext ==
    \/ HashKmer
    \/ InsertSlice
    \/ InsertDone
    \/ SaveAndLoad
    \/ QueryKmer
    \/ TestSlice
    \/ TestDone

SpecBloom == BloomInit /\ [][BloomNext]_vars

SpecAddr == AddrInit /\ [][BloomNext]_vars

----------------------------------------------------------------------------
(* Properties of the bit array and the position generator *)

\* C1: every k-mer the build has inserted tests positive in every later
\* state, when looked up the way the query looks it up, whatever else is
\* inserted before or after it.
C1_NoFalseNegatives ==
    /\ \A x \in inserted : mightcontain(bloomfilter, x)
    /\ (bpc = "test" /\ round = k /\ mer \in inserted) => there

\* the number of bits set in the filter
BitsSet ==
    Cardinality({p \in (0..(Len(bloomfilter) - 1)) \X (0..7) :
                    isbitset(bloomfilter, p[1], p[2])})

\* the query has finished looking up the first of two inserted k-mers, on a
\* digest wide enough for the k slices
C1_Witness ==
    /\ bpc = "test"
    /\ round = k
    /\ there
    /\ k = 2
    /\ k * bitfieldsize <= DigestBits
    /\ inserted = BuildKmers
    /\ BitsSet >= 3

\* C7: a digest narrower than k * bitfieldSize bits is rejected before any
\* processing: under such a configuration no bit is set and none is tested.
C7_NarrowDigestRejected ==
    (bpc # "idle" /\ k * bitfieldsize > DigestBits /\ 2 ^ bitfieldsize <= m) =>
        /\ setbits = {}
        /\ ~(bpc = "test" /\ round > 0)

\* the byte that holds exactly the bits of S at byte offset b
RECURSIVE ByteOf(_, _, _)
ByteOf(S, b, j) ==
    IF j > 7 THEN 0
    ELSE (IF <<b, j>> \in S THEN 2 ^ j ELSE 0) + ByteOf(S, b, j + 1)

\* the array a set of positions determines, whatever the order and the
\* repetitions of the insertions
ArrayOf(S, n) == [b \in 1..n |-> ByteOf(S, b - 1, 0)]

\* C8: setbit is idempotent and commutative and only turns bits on: the array
\* is determined by the set of positions inserted so far, a setbit at a
\* position inserted before leaves the array as it is, and no step clears a
\* bit.
C8_SetbitAlgebra ==
    /\ [](bpc # "idle" => bloomfilter = ArrayOf(setbits, Len(bloomfilter)))
    /\ [][(setbits' = setbits) => (bloomfilter' = bloomfilter)]_vars
    /\ [][\A b \in 1..Len(bloomfilter) :
             BitAnd(bloomfilter[b], bloomfilter'[b]) = bloomfilter[b]]_vars

\* a k-mer has been inserted a second time, over a byte that holds the bits
\* of two insertions
C8_Witness ==
    /\ bpc = "insert"
    /\ round = k
    /\ mer \in inserted
    /\ inserted = BuildKmers
    /\ \E p \in setbits : \E q \in setbits : p[1] = q[1] /\ p[2] # q[2]

\* C10: whenever 2^bitfieldSize <= m, every address nextposition produces has
\* 0 <= bitOffset <= 7 and 0 <= byteOffset < round(m/8), so that setbit and
\* isbitset never index outside the array.
C10_AddressInsideArray ==
    (bpc # "idle" /\ 2 ^ bitfieldsize <= m) =>
        /\ bpc # "IndexError"
        /\ Len(bloomfilter) = NumBytes(m)
        /\ (bpc \in {"insert", "test"} /\ round < k) =>
              LET p == IF bpc = "insert" THEN nextposition(hashnumber)
                       ELSE query_nextposition(hashnumber)
              IN  /\ 0 <= p.bitposition /\ p.bitposition <= 7
                  /\ 0 <= p.byteposition /\ p.byteposition < NumBytes(m)

----------------------------------------------------------------------------
(* humansample: the query pipeline *)

\* for start, stop in seqindex: for i in range(start, stop-kmer+1)
RECURSIVE windows(_, _)
windows(idx, len) ==
    IF idx = <<>> THEN <<>>
    ELSE LET start == Head(idx)[1]
             stop == Head(idx)[2]
         IN  [j \in 1..Max(0, stop - len + 1 - start) |-> start + j - 1]
                \o windows(Tail(idx), len)

\* header = infile.read(idx[2]-idx[0]-1) after infile.seek(idx[0])
headerof(file, idx) == SubSeq(file, idx[1] + 1, idx[3] - 1)

\* infile.read(idx[3]-idx[2]+1) after infile.seek(idx[2])
sequenceof(file, idx) == SubSeq(file, idx[3] + 1, idx[4] + 1)

SampleBytes == {GT, NL, "A", "n"}

\* the one k-mer a sample over SampleBytes can hold
SampleKmer(len) == [j \in 1..len |-> "A"]

\* the query of a sample file that indexfasta has indexed, against the filter
\* of a reference that held the sample's k-mer or did not
QueryInit ==
    /\ SeqIdle
    /\ content \in SeqsUpTo(SampleBytes, MaxSample)
    /\ ~indexfasta(content, Max(1, Len(content))).error
    /\ chunksize = Max(1, Len(content))
    /\ filepos = Len(content)
    /\ headstart = <<>>
    /\ headend = <<>>
    /\ fastaindex = indexfasta(content, chunksize).fastaindex
    /\ ipc = "done"
    /\ kmer \in 1..MaxKmer
    /\ k \in 1..MaxK
    /\ bitfieldsize = MaxBits
    /\ m = 2 ^ bitfieldsize
    /\ digest \in [{SampleKmer(kmer)} -> HashValues]
    /\ bloomfilter \in {NewFilter(m),
                        setslices(NewFilter(m), hashit(SampleKmer(kmer)), 0)}
    /\ hashnumber = 0
    /\ round = 0
    /\ mer = <<>>
    /\ there = TRUE
    /\ inserted = {}
    /\ setbits = {}
    /\ bpc = "query"
    /\ recno = 0
    /\ todo = <<>>
    /\ total_kmers = 0
    /\ human_kmers = 0
    /\ outfile = <<>>
    /\ qpc = "next"

\* the head of the loop over fastaindex: header, counters, sequence, runs
BeginRecord ==
    /\ qpc = "next"
    /\ recno < Len(fastaindex)
    /\ LET idx == fastaindex[recno + 1]
       IN  /\ raw' = sequenceof(content, idx)
           /\ seq' = translate(raw')
           /\ seqindex' = indexsequence(seq')
           /\ todo' = windows(seqindex', kmer)
    /\ total_kmers' = 0
    /\ human_kmers' = 0
    /\ qpc' = "kmers"
    /\ UNCHANGED <<pointer, spc, kmer, recno, outfile, ivars, pvars, bvars>>

\* the loop body for one k-mer: count it, hash it, test its k slices
LookUpKmer ==
    /\ qpc = "kmers"
    /\ todo # <<>>
    /\ total_kmers' = total_kmers + 1
    /\ mer' = SubSeq(seq, Head(todo) + 1, Head(todo) + kmer)
    /\ there' = mightcontain(bloomfilter, mer')
    /\ human_kmers' = IF there' THEN human_kmers + 1 ELSE human_kmers
    /\ todo' = Tail(todo)
    /\ UNCHANGED <<bloomfilter, hashnumber, round, inserted, setbits, bpc,
                   kmer, recno, outfile, qpc, ivars, svars, pvars>>

\* "Save results": the header line, then human_kmers/total_kmers
WriteResult ==
    /\ qpc = "kmers"
    /\ todo = <<>>
    /\ IF total_kmers = 0
       THEN /\ outfile' = Append(outfile, [header |-> headerof(content, fastaindex[recno + 1])])
            /\ qpc' = "ZeroDivisionError"
            /\ UNCHANGED recno
       ELSE /\ outfile' = outfile \o
                  <<[header |-> headerof(content, fastaindex[recno + 1])],
                    [human |-> human_kmers, total |-> total_kmers]>>
            /\ recno' = recno + 1
            /\ qpc' = "next"
    /\ UNCHANGED <<kmer, todo, total_kmers, human_kmers, ivars, svars, pvars, bvars>>

\* infile.close(); outfile.close()
CloseFiles ==
    /\ qpc = "next"
    /\ recno = Len(fastaindex)
    /\ qpc' = "done"
    /\ UNCHANGED <<kmer, recno, todo, total_kmers, human_kmers, outfile,
                   ivars, svars, pvars, bvars>>

QueryNext == BeginRecord \/ LookUpKmer \/ WriteResult \/ CloseFiles

SpecQuery == QueryInit /\ [][QueryNext]_vars

\* the records that yield no k-mer
NoKmers(j) ==
    windows(indexsequence(translate(sequenceof(content, fastaindex[j]))), kmer) = <<>>

\* C2: a record that yields zero k-mers gets an explicit "undefined" result,
\* raises no division fault, and the pipeline goes on to the next record.
C2_ZeroKmersUndefined ==
    /\ qpc # "ZeroDivisionError"
    /\ \A j \in 1..recno : NoKmers(j) => outfile[2 * j] = [undefined |-> TRUE]
    /\ qpc = "done" => Len(outfile) = 2 * Len(fastaindex)

====
